---------------------------- MODULE Spec2Model ----------------------------
(***************************************************************************)
(* A model of the angrav reverse-engineering scripts:                      *)
(*   scripts/grpc_capture.py    the mitmproxy response hook                *)
(*   scripts/capture_session.py the capture driver CLI and the decoder     *)
(*   scripts/inspect_vscdb.py   the database inspector                     *)
(* Bytes are integers 0..255, a bytes object is a sequence of them, and a  *)
(* str is a sequence of code points.                                       *)
(***************************************************************************)
EXTENDS Integers, Sequences, FiniteSets, TLC

VARIABLES
    \* _extract_strings / the inline loop of decode_protobuf, run step by step
    data, min_length, idx, current, strings, expc,
    \* decode_protobuf: the files on disk and the record of the last invocation
    fs, dec_last,
    \* GrpcCapture: the addon's counter, the capture directory, and the
    \* bookkeeping of what the hook has been given
    capture_count, out_files, run, n_handled, n_matched, captures, hk_last,
    \* inspect_vscdb: the file at db_path as it was and as it is, whether its
    \* directory exists, the script's position, its cursor and what it printed
    db_file0, db_file, dir_exists, dbpc, rows, rowi, out,
    \* capture_session.py main: sys.argv[1:], the operations run, the exit
    argv, clipc, called, exit_code

exVars == <<data, min_length, idx, current, strings, expc>>
decVars == <<fs, dec_last>>

hookVars == <<capture_count, out_files, run, n_handled, n_matched, captures, hk_last>>

dbVars == <<db_file0, db_file, dir_exists, dbpc, rows, rowi, out>>

cliVars == <<argv, clipc, called, exit_code>>

vars == <<exVars, decVars, hookVars, dbVars, cliVars>>

\* the scripts share no state: each leaves the others' alone
exOthers == <<decVars, hookVars, dbVars, cliVars>>
decOthers == <<exVars, hookVars, dbVars, cliVars>>
hookOthers == <<exVars, decVars, dbVars, cliVars>>
dbOthers == <<exVars, decVars, hookVars, cliVars>>
cliOthers == <<exVars, decVars, hookVars, dbVars>>

-----------------------------------------------------------------------------
(* Bounds of the model *)

MaxLen == 6
MaxThreshold == 3
MaxResponses == 2
MaxRuns == 2
MaxRows == 2
MaxArgs == 3

(* Program constants *)

DecodeMinLength == 5
HookMinLength == 10
PreviewLen == 200

-----------------------------------------------------------------------------
(* Generic helpers *)

RECURSIVE SeqsUpTo(_, _)
SeqsUpTo(S, n) ==
    IF n = 0 THEN {<<>>}
    ELSE LET shorter == SeqsUpTo(S, n - 1)
         IN  shorter \cup {Append(s, x) : s \in {t \in shorter : Len(t) = n - 1}, x \in S}

-----------------------------------------------------------------------------
(* The string-extraction loop *)

\* bytes around both ends of the printable range
SampleBytes == {31, 32, 126, 127}

\* the test of the loop: 32 <= byte < 127
IsPrintableByteOffByOne(byte) == 32 <= byte /\ byte <= 127
IsPrintableByte(byte) == 32 <= byte /\ byte < 127

\* chr(byte): the one-character str with that code point
chr(byte) == <<byte>>

\* one iteration of `for byte in data`, on the pair (current, strings)
LoopBody(st, byte, minlen) ==
    IF IsPrintableByte(byte)
    THEN [current |-> st.current \o chr(byte), strings |-> st.strings]
    ELSE [current |-> <<>>,
          strings |-> IF Len(st.current) >= minlen
                      THEN Append(st.strings, st.current)
                      ELSE st.strings]

\* the statement after the loop: a last run is appended when long enough
FinalFlush(st, minlen) ==
    IF Len(st.current) >= minlen THEN Append(st.strings, st.current) ELSE st.strings

RECURSIVE RunLoop(_, _, _, _)
RunLoop(st, bytes, i, minlen) ==
    IF i > Len(bytes) THEN st
    ELSE RunLoop(LoopBody(st, bytes[i], minlen), bytes, i + 1, minlen)

\* the whole function, as the hook and the decoder call it
ExtractStrings(bytes, minlen) ==
    FinalFlush(RunLoop([current |-> <<>>, strings |-> <<>>], bytes, 1, minlen), minlen)

\* the state of the loop when no extraction is being run
ExOff ==
    /\ data = <<>>
    /\ min_length = 0
    /\ idx = 0
    /\ current = <<>>
    /\ strings = <<>>
    /\ expc = "off"

ExInit ==
    /\ data \in SeqsUpTo(SampleBytes, MaxLen)
    /\ min_length \in (1..MaxThreshold) \cup {DecodeMinLength}
    /\ idx = 1
    /\ current = <<>>
    /\ strings = <<>>
    /\ expc = "loop"

ExLoop ==
    /\ expc = "loop"
    /\ idx <= Len(data)
    /\ LET st == LoopBody([current |-> current, strings |-> strings], data[idx], min_length)
       IN  /\ current' = st.current
           /\ strings' = st.strings
    /\ idx' = idx + 1
    /\ UNCHANGED <<data, min_length, expc>>
    /\ UNCHANGED exOthers

ExReturn ==
    /\ expc = "loop"
    /\ idx > Len(data)
    /\ strings' = FinalFlush([current |-> current, strings |-> strings], min_length)
    /\ expc' = "done"
    /\ UNCHANGED <<data, min_length, idx, current>>
    /\ UNCHANGED exOthers

-----------------------------------------------------------------------------
(* What the extraction is to return, stated without the loop *)

InRange(b) == b \in 32..126

RunStarts(bytes) ==
    {i \in 1..Len(bytes) : InRange(bytes[i]) /\ (i = 1 \/ ~InRange(bytes[i - 1]))}

RunEnd(bytes, i) ==
    CHOOSE j \in i..Len(bytes) :
        /\ \A k \in i..j : InRange(bytes[k])
        /\ (j = Len(bytes) \/ ~InRange(bytes[j + 1]))

QualifyingStarts(bytes, t) ==
    {i \in RunStarts(bytes) : RunEnd(bytes, i) - i + 1 >= t}

RECURSIVE RunsFrom(_, _)
RunsFrom(bytes, starts) ==
    IF starts = {} THEN <<>>
    ELSE LET i == CHOOSE x \in starts : \A y \in starts : x <= y
         IN  <<SubSeq(bytes, i, RunEnd(bytes, i))>> \o RunsFrom(bytes, starts \ {i})

MaximalRuns(bytes, t) == RunsFrom(bytes, QualifyingStarts(bytes, t))

\* C1: for every byte sequence and positive threshold the loop returns, in
\* order of position, exactly the maximal runs of bytes in 32..126 that are
\* at least the threshold long (a run ending at end-of-input included).
C1_ExtractsMaximalRuns ==
    expc = "done" =>
        /\ strings = MaximalRuns(data, min_length)
        /\ strings = ExtractStrings(data, min_length)
        /\ \A k \in 1..Len(strings) :
              /\ Len(strings[k]) >= min_length
              /\ \A j \in 1..Len(strings[k]) : strings[k][j] \in 32..126

\* a run that ends the input is returned and a shorter run before it, cut
\* off by a non-printable byte, is dropped
C1_Witness ==
    /\ expc = "done"
    /\ Len(data) > 0
    /\ InRange(data[Len(data)])
    /\ Cardinality(RunStarts(data)) >= 2
    /\ Len(strings) = 1
    /\ Len(strings[1]) >= min_length
    /\ strings[1] = SubSeq(data, Len(data) - Len(strings[1]) + 1, Len(data))

-----------------------------------------------------------------------------
(* The decoder: decode_protobuf(filepath) *)

\* A file name is the sequence of its dot-separated parts: cap.bin is
\* <<"cap", "bin">>.  Path.with_suffix replaces the last suffix, or appends
\* when the name has none.
with_suffix(path, suffix) ==
    IF Len(path) > 1 THEN SubSeq(path, 1, Len(path) - 1) \o suffix ELSE path \o suffix

DecodedSuffix == <<"decoded", "txt">>
StringsSuffix == <<"strings", "txt">>

\* "\n".join(strings)
RECURSIVE JoinLines(_)
JoinLines(ss) ==
    IF ss = <<>> THEN <<>>
    ELSE IF Len(ss) = 1 THEN ss[1]
    ELSE ss[1] \o <<10>> \o JoinLines(Tail(ss))

\* the files decode may be given, and every file it may then write
InputPaths == {<<"cap", "bin">>, <<"cap">>, <<"cap", "strings", "txt">>}
SidecarPaths ==
    {with_suffix(p, DecodedSuffix) : p \in InputPaths}
        \cup {with_suffix(p, StringsSuffix) : p \in InputPaths}
AllPaths == InputPaths \cup SidecarPaths

\* b"\x00hello\x00world!!\x00", b"ab", b"hello\nworld", b""
SampleData ==
    { <<0, 104, 101, 108, 108, 111, 0, 119, 111, 114, 108, 100, 33, 33, 0>>,
      <<97, 98>>,
      <<104, 101, 108, 108, 111, 10, 119, 111, 114, 108, 100>>,
      <<>> }

\* what protoscope prints: "1: 2\n", and nothing
SampleStdout == { <<49, 58, 32, 50, 10>>, <<>> }

\* the three things subprocess.run(["protoscope", ...]) can do
ToolOutcomes == {"absent", "fails", "ok"}

NoFile == [exists |-> FALSE, bytes |-> <<>>]
File(bytes) == [exists |-> TRUE, bytes |-> bytes]

\* lines 63-75: run protoscope; on exit code 0 write the .decoded.txt file
\* and return; FileNotFoundError (no protoscope) is caught and falls through,
\* as does a non-zero exit code
TryProtoscopeNoReturn(fsys, filepath, tool, stdout) ==
    IF tool = "ok"
    THEN LET output_file == with_suffix(filepath, DecodedSuffix)
         IN  [fs |-> [fsys EXCEPT ![output_file] = File(stdout)],
              written |-> <<output_file>>,
              returned |-> FALSE]
    ELSE [fs |-> fsys, written |-> <<>>, returned |-> FALSE]
TryProtoscope(fsys, filepath, tool, stdout) ==
    IF tool = "ok"
    THEN LET output_file == with_suffix(filepath, DecodedSuffix)
         IN  [fs |-> [fsys EXCEPT ![output_file] = File(stdout)],
              written |-> <<output_file>>,
              returned |-> TRUE]
    ELSE [fs |-> fsys, written |-> <<>>, returned |-> FALSE]

\* lines 82-93: the inline extraction loop, with its threshold of 5
FallbackExtractHookThreshold(bytes) == ExtractStrings(bytes, HookMinLength)
FallbackExtract(bytes) == ExtractStrings(bytes, DecodeMinLength)

\* lines 77-97: read the file (open raises when it is missing, and nothing
\* catches that), extract, write the .strings.txt file
Fallback(fsys, filepath, written) ==
    IF ~fsys[filepath].exists
    THEN [fs |-> fsys, written |-> written, outcome |-> "raised"]
    ELSE LET output_file == with_suffix(filepath, StringsSuffix)
             text == JoinLines(FallbackExtract(fsys[filepath].bytes))
         IN  [fs |-> [fsys EXCEPT ![output_file] = File(text)],
              written |-> Append(written, output_file),
              outcome |-> "returned"]

decode_protobuf(fsys, filepath, tool, stdout) ==
    LET first == TryProtoscope(fsys, filepath, tool, stdout)
    IN  IF first.returned
        THEN [fs |-> first.fs, written |-> first.written, outcome |-> "returned"]
        ELSE Fallback(first.fs, filepath, first.written)

NoDecode ==
    [filepath |-> <<>>, tool |-> "none", stdout |-> <<>>, readable |-> FALSE,
     input |-> <<>>, written |-> <<>>, outcome |-> "none"]

DecOff ==
    /\ fs = [p \in AllPaths |-> NoFile]
    /\ dec_last = NoDecode

DecInit ==
    /\ fs \in {f \in [AllPaths -> {NoFile} \cup {File(d) : d \in SampleData}] :
                  \A p \in AllPaths \ InputPaths : f[p] = NoFile}
    /\ dec_last = NoDecode

\* one run of decode_protobuf, from its first line to its return or raise
Decode ==
    \E filepath \in InputPaths, tool \in ToolOutcomes, stdout \in SampleStdout :
        \E r \in {decode_protobuf(fs, filepath, tool, stdout)} :
            /\ fs' = r.fs
            /\ dec_last' = [filepath |-> filepath,
                            tool |-> tool,
                            stdout |-> IF tool = "ok" THEN stdout ELSE <<>>,
                            readable |-> fs[filepath].exists,
                            input |-> fs[filepath].bytes,
                            written |-> r.written,
                            outcome |-> r.outcome]
    /\ UNCHANGED decOthers

\* the lines of a text file: the pieces between newlines, none for an
\* empty file
RECURSIVE SplitAtNewlines(_, _, _)
SplitAtNewlines(text, i, line) ==
    IF i > Len(text) THEN <<line>>
    ELSE IF text[i] = 10 THEN <<line>> \o SplitAtNewlines(text, i + 1, <<>>)
    ELSE SplitAtNewlines(text, i + 1, Append(line, text[i]))

Lines(text) == IF text = <<>> THEN <<>> ELSE SplitAtNewlines(text, 1, <<>>)

DecodedPath == with_suffix(dec_last.filepath, DecodedSuffix)
StringsPath == with_suffix(dec_last.filepath, StringsSuffix)

\* C2: an invocation of decode_protobuf writes at most one sidecar file, and
\* when protoscope is found and exits with code 0 that file is the
\* .decoded.txt file, holding protoscope's output, and the .strings.txt file
\* of the same input is not written.
C2_OneSidecarPerInvocation ==
    [][ LET decoded == with_suffix(dec_last'.filepath, DecodedSuffix)
            strs == with_suffix(dec_last'.filepath, StringsSuffix)
        IN  dec_last'.outcome # "none" =>
              /\ Len(dec_last'.written) <= 1
              /\ Cardinality({p \in AllPaths : fs'[p] # fs[p]}) <= 1
              /\ dec_last'.tool = "ok" =>
                    /\ dec_last'.outcome = "returned"
                    /\ dec_last'.written = <<decoded>>
                    /\ fs'[decoded] = File(dec_last'.stdout)
                    /\ fs'[strs] = fs[strs]
      ]_vars

\* protoscope exited with 0 on a readable file that has strings to extract:
\* the decoded file is there and no strings file is
C2_Witness ==
    /\ dec_last.tool = "ok"
    /\ dec_last.readable
    /\ MaximalRuns(dec_last.input, 5) # <<>>
    /\ dec_last.written = <<DecodedPath>>
    /\ fs[DecodedPath].exists
    /\ ~fs[StringsPath].exists

\* C3 as stated: whenever protoscope is absent or exits non-zero, the
\* .strings.txt file is written, its lines are the strings extraction with
\* threshold 5 gives on the input file's bytes, and no .decoded.txt file is
\* written.
C3_FallbackAlwaysWritesStrings ==
    dec_last.tool \in {"absent", "fails"} =>
        /\ dec_last.written = <<StringsPath>>
        /\ fs[StringsPath].exists
        /\ Lines(fs[StringsPath].bytes) = MaximalRuns(dec_last.input, 5)

\* C3 as amended: the same, for an input file that can be read; when it
\* cannot, open raises out of decode_protobuf and no file is written.
C3_FallbackWritesStringsIfReadable ==
    dec_last.tool \in {"absent", "fails"} =>
        IF dec_last.readable
        THEN /\ dec_last.outcome = "returned"
             /\ dec_last.written = <<StringsPath>>
             /\ fs[StringsPath].exists
             /\ Lines(fs[StringsPath].bytes) = MaximalRuns(dec_last.input, 5)
        ELSE /\ dec_last.outcome = "raised"
             /\ dec_last.written = <<>>

\* protoscope is absent and the file holds two runs of five or more: both
\* are in the strings file, one per line, and no decoded file exists
C3_Witness ==
    /\ dec_last.tool = "absent"
    /\ dec_last.readable
    /\ Len(MaximalRuns(dec_last.input, 5)) = 2
    /\ Len(Lines(fs[StringsPath].bytes)) = 2
    /\ dec_last.written = <<StringsPath>>
    /\ ~fs[DecodedPath].exists

-----------------------------------------------------------------------------
(* The proxy response hook: GrpcCapture.response(flow) *)

\* A request path is the sequence of its words; `ep in path` is containment
\* of one sequence in the other.
Contains(path, ep) ==
    \E i \in 1..(Len(path) - Len(ep) + 1) : SubSeq(path, i, i + Len(ep) - 1) = ep

Endpoints ==
    { <<"Stream", "Cascade", "Reactive", "Updates">>,
      <<"Get", "Cascade">>,
      <<"Handle", "Async">> }

\* any(ep in path for ep in [...])
Matches(path) == \E ep \in Endpoints : Contains(path, ep)

SamplePaths ==
    { <<"/", "Stream", "Cascade", "Reactive", "Updates">>,
      <<"/", "Get", "Cascade", "Trajectory">>,
      <<"/", "Stream", "Cascade", "Panel">> }

\* b"" (or no content), b"\x00hi", b"\x00session-id\x00"
SampleBodies ==
    { <<>>,
      <<0, 104, 105>>,
      <<0, 115, 101, 115, 115, 105, 111, 110, 45, 105, 100, 0>> }

\* datetime.now().strftime("%Y%m%d_%H%M%S"): the wall clock, to the second
Timestamps == {"20250101_000000", "20250101_000001"}

\* which write of the invocation, if any, raises OSError: that of the raw
\* body, or that of the strings file
IoOutcomes == {"ok", "bin_fails", "txt_fails"}

\* capture_<timestamp>_<count>.<ext>
FileName(timestamp, count, ext) == [timestamp |-> timestamp, count |-> count, ext |-> ext]

NoMeta == [path |-> <<>>, size_bytes |-> 0, filename |-> FileName("", 0, "")]
Content(bytes, meta) == [bytes |-> bytes, meta |-> meta]

WriteFile(files, name, content) ==
    [n \in DOMAIN files \cup {name} |-> IF n = name THEN content ELSE files[n]]

\* lines 36-37: a matching path counts, whatever the body
CountOnlyCaptures(count, path, body) ==
    IF Matches(path) /\ body # <<>> THEN count + 1 ELSE count
CountOnResponse(count, path, body) ==
    IF Matches(path) THEN count + 1 ELSE count

\* line 69: the strings file is written only for a non-empty list
WritesStringsFileAlways(strs) == TRUE
WritesStringsFile(strs) == strs # <<>>

\* lines 66-74: extraction and the write of the .txt file, inside try/except
ExtractionStepUncaught(files, timestamp, count, body, io) ==
    LET strs == ExtractStrings(body, HookMinLength)
        strings_path == FileName(timestamp, count, "txt")
    IN  IF ~WritesStringsFile(strs)
        THEN [files |-> files, written |-> <<>>, log |-> <<>>, outcome |-> "returned"]
        ELSE IF io = "txt_fails"
        THEN [files |-> files, written |-> <<>>, log |-> <<>>, outcome |-> "raised"]
        ELSE [files |-> WriteFile(files, strings_path, Content(JoinLines(strs), NoMeta)),
              written |-> <<strings_path>>,
              log |-> <<"info: extracted">>,
              outcome |-> "returned"]
ExtractionStep(files, timestamp, count, body, io) ==
    LET strs == ExtractStrings(body, HookMinLength)
        strings_path == FileName(timestamp, count, "txt")
    IN  IF ~WritesStringsFile(strs)
        THEN [files |-> files, written |-> <<>>, log |-> <<>>, outcome |-> "returned"]
        ELSE IF io = "txt_fails"
        THEN [files |-> files, written |-> <<>>,
              log |-> <<"warn: string extraction failed">>, outcome |-> "returned"]
        ELSE [files |-> WriteFile(files, strings_path, Content(JoinLines(strs), NoMeta)),
              written |-> <<strings_path>>,
              log |-> <<"info: extracted">>,
              outcome |-> "returned"]

\* lines 42-74: the body of `if body and len(body) > 0`
SaveCapture(files, timestamp, count, path, body, io) ==
    LET filename == FileName(timestamp, count, "bin")
        meta_path == FileName(timestamp, count, "json")
        meta == [path |-> path, size_bytes |-> Len(body), filename |-> filename]
        files1 == WriteFile(files, filename, Content(body, NoMeta))
        files2 == WriteFile(files1, meta_path, Content(<<>>, meta))
        ex == ExtractionStep(files2, timestamp, count, body, io)
    IN  IF io = "bin_fails"
        THEN [files |-> files, written |-> <<>>, log |-> <<>>, outcome |-> "raised"]
        ELSE [files |-> ex.files,
              written |-> <<filename, meta_path>> \o ex.written,
              log |-> <<"info: captured">> \o ex.log,
              outcome |-> ex.outcome]

\* lines 31-74
response(count, files, path, body, timestamp, io) ==
    LET count1 == CountOnResponse(count, path, body)
    IN  IF Matches(path) /\ body # <<>>
        THEN LET r == SaveCapture(files, timestamp, count1, path, body, io)
             IN  [capture_count |-> count1, files |-> r.files, written |-> r.written,
                  log |-> r.log, outcome |-> r.outcome]
        ELSE [capture_count |-> count1, files |-> files, written |-> <<>>,
              log |-> <<>>, outcome |-> "returned"]

NoResponse ==
    [path |-> <<>>, body |-> <<>>, timestamp |-> "", io |-> "ok", count_before |-> 0,
     written |-> <<>>, log |-> <<>>, outcome |-> "none"]

\* addons = [GrpcCapture()] on an empty capture directory
HookInit ==
    /\ capture_count = 0
    /\ out_files = << >>
    /\ run = 1
    /\ n_handled = 0
    /\ n_matched = 0
    /\ captures = <<>>
    /\ hk_last = NoResponse

HookOff == HookInit

\* mitmproxy hands one response to the hook
Response ==
    /\ n_handled < MaxResponses
    /\ \E path \in SamplePaths, body \in SampleBodies,
          timestamp \in Timestamps, io \in IoOutcomes :
          \E r \in {response(capture_count, out_files, path, body, timestamp, io)} :
              /\ capture_count' = r.capture_count
              /\ out_files' = r.files
              /\ n_matched' = IF Matches(path) THEN n_matched + 1 ELSE n_matched
              /\ captures' = IF r.written # <<>>
                             THEN Append(captures,
                                         [run |-> run, timestamp |-> r.written[1].timestamp,
                                          count |-> r.written[1].count])
                             ELSE captures
              /\ hk_last' = [path |-> path, body |-> body, timestamp |-> timestamp,
                             io |-> io, count_before |-> capture_count,
                             written |-> r.written, log |-> r.log, outcome |-> r.outcome]
    /\ n_handled' = n_handled + 1
    /\ UNCHANGED run
    /\ UNCHANGED hookOthers

\* the proxy is stopped and started again: the module is loaded anew, the
\* capture directory keeps its files
Restart ==
    /\ run < MaxRuns
    /\ run' = run + 1
    /\ capture_count' = 0
    /\ n_matched' = 0
    /\ hk_last' = NoResponse
    /\ UNCHANGED <<out_files, n_handled, captures>>
    /\ UNCHANGED hookOthers

HkMatched == hk_last.outcome # "none" /\ Matches(hk_last.path)
HkBin == FileName(hk_last.timestamp, capture_count, "bin")
HkJson == FileName(hk_last.timestamp, capture_count, "json")
HkTxt == FileName(hk_last.timestamp, capture_count, "txt")
HkRuns == MaximalRuns(hk_last.body, 10)

\* the .bin and .json files of the last response are on disk, under its stem
HkBinAndJsonSaved ==
    /\ {HkBin, HkJson} \subseteq DOMAIN out_files
    /\ out_files[HkBin].bytes = hk_last.body
    /\ out_files[HkJson].meta =
          [path |-> hk_last.path, size_bytes |-> Len(hk_last.body), filename |-> HkBin]

C5_ExtractionFailureContained ==
    (HkMatched /\ hk_last.io = "txt_fails" /\ HkRuns # <<>>) =>
        /\ hk_last.outcome = "returned"
        /\ hk_last.log = <<"info: captured", "warn: string extraction failed">>
        /\ hk_last.written = <<HkBin, HkJson>>
        /\ HkBinAndJsonSaved
        /\ capture_count = hk_last.count_before + 1

\* the write of the strings file failed on the first response, and a second
\* response was captured in full after it
C5_Witness ==
    /\ HkMatched /\ hk_last.io = "ok" /\ HkRuns # <<>>
    /\ hk_last.written = <<HkBin, HkJson, HkTxt>>
    /\ capture_count = 2
    /\ Len(captures) = 2
    /\ captures[1].run = run
    /\ FileName(captures[1].timestamp, 1, "bin") \in DOMAIN out_files
    /\ FileName(captures[1].timestamp, 1, "json") \in DOMAIN out_files
    /\ FileName(captures[1].timestamp, 1, "txt") \notin DOMAIN out_files
    /\ ExtractStrings(out_files[FileName(captures[1].timestamp, 1, "bin")].bytes,
                      HookMinLength) # <<>>

\* the captures of one process carry strictly increasing counters
StemsIncreaseWithinRun ==
    \A i, j \in 1..Len(captures) :
        (i < j /\ captures[i].run = captures[j].run) =>
            captures[i].count < captures[j].count

\* C10: capture_count is the number of responses of this process whose path
\* matched, empty bodies included; it never decreases while the process
\* runs; the stems written by one process carry strictly increasing
\* counters, so two captures with the same stem come from different runs.
C10_CounterCountsMatches ==
    /\ [](/\ capture_count = n_matched
          /\ StemsIncreaseWithinRun
          /\ \A i, j \in 1..Len(captures) :
                (i # j /\ captures[i].timestamp = captures[j].timestamp
                       /\ captures[i].count = captures[j].count)
                    => captures[i].run # captures[j].run)
    /\ [][run' = run => capture_count' >= capture_count]_vars

\* a matching response with an empty body used up counter 1, and the capture
\* after it carries counter 2
C10_Witness ==
    /\ capture_count = 2
    /\ n_matched = 2
    /\ Len(captures) = 1
    /\ captures[1].count = 2
    /\ hk_last.written # <<>>

-----------------------------------------------------------------------------
(* The database inspector: the body of inspect_vscdb.py *)

\* bytes.decode('utf-8'), strict: the code points, or failure on the first
\* byte sequence that is not well-formed UTF-8
IsCont(b) == b \in 128..191

SeqLen(bytes, i) ==
    LET b == bytes[i]
    IN  IF b < 128 THEN 1
        ELSE IF b \in 194..223 THEN 2
        ELSE IF b \in 224..239 THEN 3
        ELSE IF b \in 240..244 THEN 4
        ELSE 0

WellFormedAt(bytes, i, n) ==
    /\ n > 0
    /\ i + n - 1 <= Len(bytes)
    /\ \A k \in (i + 1)..(i + n - 1) : IsCont(bytes[k])
    /\ bytes[i] = 224 => bytes[i + 1] >= 160
    /\ bytes[i] = 237 => bytes[i + 1] <= 159
    /\ bytes[i] = 240 => bytes[i + 1] >= 144
    /\ bytes[i] = 244 => bytes[i + 1] <= 143

CodePoint(bytes, i, n) ==
    IF n = 1 THEN bytes[i]
    ELSE IF n = 2 THEN (bytes[i] - 192) * 64 + (bytes[i + 1] - 128)
    ELSE IF n = 3 THEN (bytes[i] - 224) * 4096 + (bytes[i + 1] - 128) * 64
                           + (bytes[i + 2] - 128)
    ELSE (bytes[i] - 240) * 262144 + (bytes[i + 1] - 128) * 4096
             + (bytes[i + 2] - 128) * 64 + (bytes[i + 3] - 128)

\* A continuation byte belongs to the character begun by one of the three
\* bytes before it.
CoveredAt(bytes, i) ==
    \E j \in (IF i > 3 THEN i - 3 ELSE 1)..(i - 1) :
        /\ ~IsCont(bytes[j])
        /\ SeqLen(bytes, j) > i - j
        /\ \A k \in (j + 1)..i : IsCont(bytes[k])

\* Every character is well-formed and every continuation byte belongs to
\* one: what a decoder reading from the first byte on accepts.
WellFormed(bytes) ==
    \A i \in 1..Len(bytes) :
        IF IsCont(bytes[i]) THEN CoveredAt(bytes, i)
        ELSE WellFormedAt(bytes, i, SeqLen(bytes, i))

\* the code points of the characters that begin in bytes[lo..hi], in order
RECURSIVE CodePointsIn(_, _, _)
CodePointsIn(bytes, lo, hi) ==
    IF lo > hi THEN <<>>
    ELSE IF lo = hi
         THEN IF IsCont(bytes[lo]) THEN <<>>
              ELSE <<CodePoint(bytes, lo, SeqLen(bytes, lo))>>
    ELSE LET mid == (lo + hi) \div 2
         IN  CodePointsIn(bytes, lo, mid) \o CodePointsIn(bytes, mid + 1, hi)

Utf8Decode(bytes) ==
    IF WellFormed(bytes)
    THEN [ok |-> TRUE, chars |-> CodePointsIn(bytes, 1, Len(bytes))]
    ELSE [ok |-> FALSE, chars |-> <<>>]

\* s[:n]
Prefix(s, n) == SubSeq(s, 1, IF Len(s) < n THEN Len(s) ELSE n)

\* a column value: bytes for a BLOB, str for TEXT, None for NULL; `data`
\* holds the bytes or the code points
Blob(bytes) == [type |-> "bytes", data |-> bytes]
Text(chars) == [type |-> "str", data |-> chars]
Null == [type |-> "None", data |-> <<>>]

Pad(n) == [i \in 1..n |-> 65]

\* b"hi"; b"\xff"; 200 A's then \xff; 199 A's then e-acute (2 bytes);
\* e-acute then 200 A's; "hi" stored as TEXT; NULL
SampleValues ==
    { Blob(<<104, 105>>),
      Blob(<<255>>),
      Blob(Pad(PreviewLen) \o <<255>>),
      Blob(Pad(PreviewLen - 1) \o <<195, 169>>),
      Blob(<<195, 169>> \o Pad(PreviewLen)),
      Text(<<104, 105>>),
      Null }

\* "chat.a", "Chat.B", "chatx"
SampleKeys ==
    { <<99, 104, 97, 116, 46, 97>>,
      <<67, 104, 97, 116, 46, 66>>,
      <<99, 104, 97, 116, 120>> }

SampleRows == [key : SampleKeys, value : SampleValues]

\* ItemTable's key column is UNIQUE
UniqueKeys(items) ==
    \A i, j \in 1..Len(items) : i # j => items[i].key # items[j].key

\* the file at db_path: absent, not a database, zero bytes long (what SQLite
\* takes for a database without tables), or a database
NoDb == [kind |-> "missing", tables |-> {}, items |-> <<>>]
Garbage == [kind |-> "garbage", tables |-> {}, items |-> <<>>]
EmptyDb == [kind |-> "empty", tables |-> {}, items |-> <<>>]
Database(tables, items) == [kind |-> "sqlite", tables |-> tables, items |-> items]

SampleDbFiles ==
    {NoDb, Garbage, EmptyDb, Database({"Other"}, <<>>)}
        \cup {Database(t, items) :
                t \in {{"ItemTable"}, {"ItemTable", "Other"}},
                items \in {r \in SeqsUpTo(SampleRows, MaxRows) : UniqueKeys(r)}}

\* key LIKE 'chat.%': LIKE compares ASCII letters without regard to case
Lower(c) == IF c \in 65..90 THEN c + 32 ELSE c
ChatPrefix == <<99, 104, 97, 116, 46>>
LikeChat(key) ==
    /\ Len(key) >= Len(ChatPrefix)
    /\ \A i \in 1..Len(ChatPrefix) : Lower(key[i]) = ChatPrefix[i]

RECURSIVE SelectChatRows(_)
SelectChatRows(items) ==
    IF items = <<>> THEN <<>>
    ELSE IF LikeChat(Head(items).key)
         THEN <<Head(items)>> \o SelectChatRows(Tail(items))
         ELSE SelectChatRows(Tail(items))

\* a printed line
PrintedLine(kind, msg, text, n) == [kind |-> kind, msg |-> msg, text |-> text, n |-> n]
InspectingLine == PrintedLine("Inspecting", "", <<>>, 0)
TablesLine(tables) == PrintedLine("Tables", "", <<>>, Cardinality(tables))
ChatKeysLine == PrintedLine("ChatKeys", "", <<>>, 0)
KeyLine(key) == PrintedLine("Key", "", key, 0)
SizeLine(n) == PrintedLine("Size", "", <<>>, n)
ValueLine(text) == PrintedLine("Value", "", text, 0)
BinaryLine == PrintedLine("Value", "<binary>", <<>>, 0)
SepLine == PrintedLine("Sep", "", <<>>, 0)
ErrorLine(msg) == PrintedLine("Error", msg, <<>>, 0)

\* lines 28-31: value.decode('utf-8')[:200] inside try / bare except; a str
\* has no decode, which the bare except turns into the placeholder too
ValuePreviewOfFirstBytes(value) ==
    LET d == Utf8Decode(Prefix(value.data, PreviewLen))
    IN  IF value.type = "bytes" /\ d.ok THEN ValueLine(d.chars) ELSE BinaryLine
ValuePreview(value) ==
    LET d == Utf8Decode(value.data)
    IN  IF value.type = "bytes" /\ d.ok
        THEN ValueLine(Prefix(d.chars, PreviewLen))
        ELSE BinaryLine

\* lines 36-37: except Exception as e: print(f"Error: {e}")
OnException(printed, msg) == Append(printed, ErrorLine(msg))

DbOff ==
    /\ db_file0 = NoDb
    /\ db_file = NoDb
    /\ dir_exists = FALSE
    /\ dbpc = "off"
    /\ rows = <<>>
    /\ rowi = 0
    /\ out = <<>>

\* line 8
DbInit ==
    /\ db_file0 \in SampleDbFiles
    /\ db_file = db_file0
    /\ dir_exists \in BOOLEAN
    /\ db_file0.kind # "missing" => dir_exists
    /\ dbpc = "connect"
    /\ rows = <<>>
    /\ rowi = 0
    /\ out = <<InspectingLine>>

\* line 11: sqlite3.connect(db_path) opens the file for reading and writing
\* and creates it when it is not there; without the directory it cannot
Connect ==
    /\ dbpc = "connect"
    /\ IF db_file.kind = "missing"
       THEN IF dir_exists
            THEN /\ db_file' = EmptyDb
                 /\ dbpc' = "list"
                 /\ out' = out
            ELSE /\ db_file' = db_file
                 /\ dbpc' = "done"
                 /\ out' = OnException(out, "unable to open database file")
       ELSE /\ db_file' = db_file
            /\ dbpc' = "list"
            /\ out' = out
    /\ UNCHANGED <<db_file0, dir_exists, rows, rowi>>
    /\ UNCHANGED dbOthers

\* lines 15-20: the first statement executed is where a file that is not a
\* database is found out
ListTables ==
    /\ dbpc = "list"
    /\ IF db_file.kind = "garbage"
       THEN /\ dbpc' = "done"
            /\ out' = OnException(out, "file is not a database")
       ELSE /\ dbpc' = IF "ItemTable" \in db_file.tables THEN "select" ELSE "close"
            /\ out' = Append(out, TablesLine(db_file.tables))
    /\ UNCHANGED <<db_file0, db_file, dir_exists, rows, rowi>>
    /\ UNCHANGED dbOthers

\* lines 21-23
SelectRows ==
    /\ dbpc = "select"
    /\ rows' = SelectChatRows(db_file.items)
    /\ rowi' = 1
    /\ out' = Append(out, ChatKeysLine)
    /\ dbpc' = "loop"
    /\ UNCHANGED <<db_file0, db_file, dir_exists>>
    /\ UNCHANGED dbOthers

\* lines 24-32: one iteration of the row loop; len(None) raises TypeError,
\* which only the outer handler catches
PrintRow ==
    /\ dbpc = "loop"
    /\ rowi <= Len(rows)
    /\ LET key == rows[rowi].key
           value == rows[rowi].value
       IN  IF value.type = "None"
           THEN /\ out' = OnException(Append(out, KeyLine(key)),
                                      "object of type 'NoneType' has no len()")
                /\ dbpc' = "done"
                /\ rowi' = rowi
           ELSE /\ out' = out \o <<KeyLine(key), SizeLine(Len(value.data)),
                                   ValuePreview(value), SepLine>>
                /\ dbpc' = "loop"
                /\ rowi' = rowi + 1
    /\ UNCHANGED <<db_file0, db_file, dir_exists, rows>>
    /\ UNCHANGED dbOthers

EndLoop ==
    /\ dbpc = "loop"
    /\ rowi > Len(rows)
    /\ dbpc' = "close"
    /\ UNCHANGED <<db_file0, db_file, dir_exists, rows, rowi, out>>
    /\ UNCHANGED dbOthers

\* line 34
Close ==
    /\ dbpc = "close"
    /\ dbpc' = "done"
    /\ UNCHANGED <<db_file0, db_file, dir_exists, rows, rowi, out>>
    /\ UNCHANGED dbOthers

\* the four lines printed for the k-th selected row
RowBlock(k) == SubSeq(out, 4 * k, 4 * k + 3)

\* the rows whose iteration has run to its end
PrintedRows == {k \in 1..Len(rows) : k < rowi}

\* C6: the inspector leaves the file at db_path as it found it, and does not
\* create it when it is missing.
C6_DatabaseFileUntouched == db_file = db_file0

\* C7: every error is caught and printed: a missing or corrupt database file
\* ends the run with an Error line, and a value that cannot be decoded gets
\* the placeholder while the rows after it are still printed.
C7_EveryErrorPrinted ==
    dbpc = "done" =>
        /\ db_file0.kind \in {"missing", "garbage"} => out[Len(out)].kind = "Error"
        /\ (\A k \in 1..Len(rows) : rows[k].value.type = "bytes") =>
              /\ PrintedRows = 1..Len(rows)
              /\ \A k \in 1..Len(rows) :
                    ~WellFormed(rows[k].value.data) => RowBlock(k)[3] = BinaryLine

-----------------------------------------------------------------------------
(* The capture driver's command line: main() of capture_session.py *)

\* words a command line may hold: the three subcommands, the `stop` of the
\* module docstring, and a file name
SampleArgs == {"start", "decode", "list", "stop", "cap.bin"}

Call(op, arg) == [op |-> op, arg |-> arg]

\* lines 111-133, on sys.argv[1:]: the operations main calls, and whether it
\* ends in sys.exit(1)
mainUnknownIgnored(args) ==
    IF Len(args) < 1 THEN [called |-> <<>>, usage_error |-> TRUE]
    ELSE IF args[1] = "start" THEN [called |-> <<Call("start_capture", "")>>,
                                    usage_error |-> FALSE]
    ELSE IF args[1] = "decode"
         THEN IF Len(args) < 2 THEN [called |-> <<>>, usage_error |-> TRUE]
              ELSE [called |-> <<Call("decode_protobuf", args[2])>>, usage_error |-> FALSE]
    ELSE IF args[1] = "list" THEN [called |-> <<Call("list_captures", "")>>,
                                   usage_error |-> FALSE]
    ELSE [called |-> <<>>, usage_error |-> FALSE]
main(args) ==
    IF Len(args) < 1 THEN [called |-> <<>>, usage_error |-> TRUE]
    ELSE IF args[1] = "start" THEN [called |-> <<Call("start_capture", "")>>,
                                    usage_error |-> FALSE]
    ELSE IF args[1] = "decode"
         THEN IF Len(args) < 2 THEN [called |-> <<>>, usage_error |-> TRUE]
              ELSE [called |-> <<Call("decode_protobuf", args[2])>>, usage_error |-> FALSE]
    ELSE IF args[1] = "list" THEN [called |-> <<Call("list_captures", "")>>,
                                   usage_error |-> FALSE]
    ELSE [called |-> <<>>, usage_error |-> TRUE]

CliOff ==
    /\ argv = <<>>
    /\ clipc = "off"
    /\ called = <<>>
    /\ exit_code = 0

CliInit ==
    /\ argv \in SeqsUpTo(SampleArgs, MaxArgs)
    /\ clipc = "main"
    /\ called = <<>>
    /\ exit_code = 0

\* one run of the script: sys.exit(1) on a usage error; otherwise the exit
\* code is 0 when the operation returns and 1 when it raises, main catching
\* nothing
RunMain ==
    /\ clipc = "main"
    /\ \E op_raises \in BOOLEAN :
          LET r == main(argv)
          IN  /\ called' = r.called
              /\ exit_code' = IF r.usage_error \/ (r.called # <<>> /\ op_raises)
                              THEN 1 ELSE 0
    /\ clipc' = "exited"
    /\ UNCHANGED argv
    /\ UNCHANGED cliOthers

IsUsageError(args) ==
    \/ args = <<>>
    \/ args[1] \notin {"start", "decode", "list"}
    \/ args[1] = "decode" /\ Len(args) = 1

-----------------------------------------------------------------------------
(* Specifications: one for each script, the others' state at rest *)

InitExtract == ExInit /\ DecOff /\ HookOff /\ DbOff /\ CliOff
NextExtract == ExLoop \/ ExReturn
SpecExtract == InitExtract /\ [][NextExtract]_vars

InitDecode == DecInit /\ ExOff /\ HookOff /\ DbOff /\ CliOff
NextDecode == Decode
SpecDecode == InitDecode /\ [][NextDecode]_vars

InitHook == HookInit /\ ExOff /\ DecOff /\ DbOff /\ CliOff
NextHook == Response \/ Restart
SpecHook == InitHook /\ [][NextHook]_vars

InitDb == DbInit /\ ExOff /\ DecOff /\ HookOff /\ CliOff
NextDb == Connect \/ ListTables \/ SelectRows \/ PrintRow \/ EndLoop \/ Close
SpecDb == InitDb /\ [][NextDb]_vars

InitCli == CliInit /\ ExOff /\ DecOff /\ HookOff /\ DbOff
NextCli == RunMain
SpecCli == InitCli /\ [][NextCli]_vars

=============================================================================
